---- MODULE Spec2Model ----
(***************************************************************************)
(* Knockster Security mobile client: the guest-verification scanner        *)
(* (app/(tabs)/scanner.tsx), the pending-action poller                     *)
(* (app/(tabs)/my-qr.tsx), the API client (services/apiService.ts) and the *)
(* session contexts (contexts/AuthContext.tsx, which the app mounts, and   *)
(* contexts/SecurityContext.tsx).                                          *)
(*                                                                         *)
(* The JavaScript runtime is single-threaded: every action below is one    *)
(* run-to-completion slice of a handler, from its start (or from the       *)
(* resumption of an await) to its next await on the network.  Event        *)
(* handlers of a rendered screen read the state of the latest render;      *)
(* values a handler reads after an await are the ones its closure captured *)
(* when it was called, and are carried in the call record.                 *)
(***************************************************************************)
EXTENDS Integers, Sequences, FiniteSets, Bags, TLC

VARIABLES
    \* ---- expo-secure-store
    store,              \* [auth_token, guard_data]
    \* ---- services/apiService.ts: requests handed to axios and not yet
    \*      consumed by the caller (a bag of call records)
    calls,
    \* ---- app/(tabs)/scanner.tsx: useState cells of ScannerScreen
    scanned, scanResult, showManualEntry, showOtpModal, manualQrCode,
    otpCode, isProcessing, pendingOtpData,
    \* ---- app/(tabs)/my-qr.tsx: useState / useRef cells of MyQRScreen
    lifecycle,          \* of the screen instance: constructed, mounted, unmounted
    myQrData, myQrIsLoading,    \* the cells qrData and isLoading
    showL3Modal, showL4Modal, l3ScanData, l4OtpData, otpInput, isVerifyingOtp,
    pollingIntervalRef,
    pollClosure,        \* the render whose functions the mount effect holds
    \* ---- react-native Alert: the native dialogs shown
    alerts,
    \* ---- contexts/AuthContext.tsx: useState cells of AuthProvider
    guard, token, isLoading, authPc,
    loginResult,        \* what login has returned to the login screen
    \* ---- contexts/SecurityContext.tsx: useState cells of SecurityProvider,
    \* and where its checkAuthStatus / logout and its refreshGuardData stand
    secIsAuthenticated, secIsLoading, secGuard, secPc, refreshPc

scannerVars == <<scanned, scanResult, showManualEntry, showOtpModal,
                 manualQrCode, otpCode, isProcessing, pendingOtpData>>
pollerVars == <<lifecycle, myQrData, myQrIsLoading, showL3Modal, showL4Modal,
                l3ScanData, l4OtpData, otpInput, isVerifyingOtp,
                pollingIntervalRef, pollClosure>>
authVars == <<guard, token, isLoading, authPc, loginResult>>
securityVars == <<secIsAuthenticated, secIsLoading, secGuard, secPc, refreshPc>>
vars == <<store, calls, alerts, scannerVars, pollerVars, authVars, securityVars>>

----------------------------------------------------------------------------
(* Bounds of the model. *)

\* The most scan-guest / verify-otp requests outstanding at once.
MaxScannerCalls == 2
\* The most pending-action polls outstanding at once.
MaxPollCalls == 2
\* The most other API requests (login, dashboard, ...) outstanding at once.
MaxApiCalls == 2

----------------------------------------------------------------------------
(* JavaScript values.  A string is a TLA+ string, a text typed or scanned  *)
(* is a sequence of lexemes; null and undefined are the two values below.  *)

Undefined == "undefined"
NullStr == "null"

\* An absent object (null state cell).
Null == [null |-> TRUE]


\* The lexemes of a text that are punctuation of JSON, and the blank.
Structural == {"{", "}", ":", ","}
Whitespace == " "

\* String.prototype.trim(): the text without leading and trailing blanks.
RECURSIVE TrimLeft(_)
TrimLeft(s) ==
    IF s # <<>> /\ Head(s) = Whitespace THEN TrimLeft(Tail(s)) ELSE s

RECURSIVE TrimRight(_)
TrimRight(s) ==
    IF s # <<>> /\ s[Len(s)] = Whitespace
    THEN TrimRight(SubSeq(s, 1, Len(s) - 1))
    ELSE s

Trim(s) == TrimRight(TrimLeft(s))

\* A JavaScript value used as a condition: undefined, null, 0 and the empty
\* string are falsy.  The lexeme "null" is the literal null, "0" the number.
Falsy(v) == v \in {Undefined, NullStr, "0", ""}

----------------------------------------------------------------------------
(* JSON.parse on a text of lexemes.  Accepted: one scalar lexeme, or an    *)
(* object { key : scalar , ... }.  Blanks between lexemes are skipped.     *)
(* Nested values do not occur in the texts of this model.                  *)

IsScalar(x) == x \notin Structural /\ x # Whitespace
IsKey(x) == IsScalar(x) /\ x \notin {NullStr, "0"}

SyntaxError == [ok |-> FALSE]
EmptyObject == <<>>

RECURSIVE ParseMembers(_, _, _)
ParseMembers(toks, i, acc) ==
    IF i + 3 > Len(toks) THEN SyntaxError
    ELSE IF ~IsKey(toks[i]) \/ toks[i + 1] # ":" \/ ~IsScalar(toks[i + 2])
    THEN SyntaxError
    ELSE LET next == (toks[i] :> toks[i + 2]) @@ acc   \* a repeated key: the last wins
         IN  IF toks[i + 3] = "}"
             THEN IF i + 3 = Len(toks)
                  THEN [ok |-> TRUE, isObject |-> TRUE, fields |-> next]
                  ELSE SyntaxError
             ELSE IF toks[i + 3] = ","
             THEN ParseMembers(toks, i + 4, next)
             ELSE SyntaxError

JSONParse(text) ==
    LET toks == SelectSeq(text, LAMBDA x : x # Whitespace)
    IN  IF Len(toks) = 1 /\ IsScalar(toks[1])
        THEN [ok |-> TRUE, isObject |-> FALSE, scalar |-> toks[1]]
        ELSE IF Len(toks) = 2 /\ toks[1] = "{" /\ toks[2] = "}"
        THEN [ok |-> TRUE, isObject |-> TRUE, fields |-> EmptyObject]
        ELSE IF Len(toks) >= 1 /\ toks[1] = "{"
        THEN ParseMembers(toks, 2, EmptyObject)
        ELSE SyntaxError

\* obj.key on an object's fields: the value, or undefined.
Get(fields, key) == IF key \in DOMAIN fields THEN fields[key] ELSE Undefined

\* a || b
OrElse(a, b) == IF Falsy(a) THEN b ELSE a

----------------------------------------------------------------------------
(* services/apiService.ts: the API client.                                 *)

\* The status the response interceptor gives a meaning to.
Unauthorized == 401

NoHeader == "no Authorization header"
Bearer(t) == <<"Bearer", t>>

\* (mutant) a header made of the token the session context holds in memory.
AuthHeaderOfContext ==
    IF ~Falsy(token) THEN Bearer(token) ELSE <<NoHeader>>

\* Request interceptor: the Authorization header made of what
\* SecureStore.getItemAsync('auth_token') reads now.
AuthHeader ==
    IF ~Falsy(store.auth_token) THEN Bearer(store.auth_token) ELSE <<NoHeader>>

\* The guards and the tokens the server can answer a login with.
Guards == { [id |-> "g1", username |-> "asha"], [id |-> "g2", username |-> "ravi"] }
Tokens == {"t1", "t2"}

\* What the server can send as message / error texts.
ServerMessages == {"", "Welcome"}
ServerErrors == {Undefined, "Invitation revoked"}

\* The invitation object of a scan-guest response: the server grants a tier-1
\* invitation at once and asks for a one-time code for a tier-2 one.
Invitation(status) ==
    IF status = "pending_otp"
    THEN [guestName |-> "Bob", guestPhone |-> "555-0202", securityLevel |-> 2]
    ELSE [guestName |-> "Alice", guestPhone |-> "555-0101", securityLevel |-> 1]

\* ApiResponse<T>: { success, data?, message?, error? }
ApiResponse(success, data, error) ==
    [success |-> success, data |-> data, error |-> error]

\* The bodies of a 2xx response, per operation.
ScanGuestBodies ==
    { ApiResponse(TRUE, [status |-> st, invitation |-> Invitation(st), message |-> m],
                  Undefined) :
        st \in {"success", "pending_otp", "expired"}, m \in ServerMessages }
    \cup { ApiResponse(FALSE, Null, e) : e \in ServerErrors }
    \cup { ApiResponse(TRUE, Null, Undefined) }

VerifyOtpBodies ==
    { ApiResponse(TRUE, [status |-> "success", message |-> m], Undefined) :
        m \in ServerMessages }
    \cup { ApiResponse(FALSE, Null, e) : e \in ServerErrors }
    \cup { ApiResponse(TRUE, Null, Undefined) }

LoginBodies ==
    { ApiResponse(TRUE, [token |-> t, guard |-> g], Undefined) :
        t \in Tokens, g \in Guards }
    \cup { ApiResponse(FALSE, Null, e) : e \in ServerErrors }

DashboardBodies ==
    { ApiResponse(TRUE, [activeInvitations |-> n], Undefined) : n \in {0, 1} }
    \cup { ApiResponse(FALSE, Null, e) : e \in ServerErrors }

ProfileBodies ==
    { ApiResponse(TRUE, g, Undefined) : g \in Guards }
    \cup { ApiResponse(FALSE, Null, e) : e \in ServerErrors }

UpdateProfileBodies ==
    { ApiResponse(TRUE, [message |-> m], Undefined) : m \in ServerMessages }
    \cup { ApiResponse(FALSE, Null, e) : e \in ServerErrors }

\* What the transport hands to the response interceptor: a 2xx response with a
\* body, a failing status with an optional message, or no response at all.
OkReplies(bodies) ==
    { [hasResponse |-> TRUE, status |-> 200, body |-> b] : b \in bodies }

ErrorReplies ==
    { [hasResponse |-> TRUE, status |-> Unauthorized, message |-> Undefined,
       axiosMessage |-> "Request failed with status code"],
      [hasResponse |-> TRUE, status |-> 500, message |-> "Server says no",
       axiosMessage |-> "Request failed with status code"],
      [hasResponse |-> FALSE, status |-> 0, message |-> Undefined,
       axiosMessage |-> "Network Error"] }

IsError(reply) == ~reply.hasResponse \/ reply.status # 200

\* handleResponse: the body of the response, as it is.
HandleResponse(reply) == reply.body

\* (mutant) handleError passing on the server's message only.
HandleErrorBare(reply) == ApiResponse(FALSE, Null, reply.message)

\* handleError, for an axios error.
HandleError(reply) ==
    ApiResponse(FALSE, Null,
                OrElse(OrElse(reply.message, reply.axiosMessage), "An error occurred"))

\* (mutant) an interceptor that rejects a 401 without touching the store.
InterceptorKeepsToken(reply) == store

\* Response interceptor: a 401 deletes 'auth_token' from the secure store.
ResponseInterceptor(reply) ==
    IF reply.hasResponse /\ reply.status = Unauthorized
    THEN [store EXCEPT !.auth_token = NullStr]
    ELSE store

\* try { return handleResponse(await api.post(..)) } catch { return handleError }
Settle(reply) == IF IsError(reply) THEN HandleError(reply) ELSE HandleResponse(reply)

\* A request handed to axios: what was sent, and what the caller's closure
\* holds for the code after its await.  The header is that of a request whose
\* interceptor reads the store and sends at once; the session's calls go
\* through the interceptor's await step by step (Held).
Request(op, via, body, qrData, parsedData, saved) ==
    [op |-> op, via |-> via, body |-> body, auth |-> AuthHeader,
     phase |-> "sent", unauthorized |-> FALSE, result |-> Null,
     qrData |-> qrData, parsedData |-> parsedData, saved |-> saved]

Outstanding(ops) == { c \in BagToSet(calls) : c.op \in ops }
NumOutstanding(ops) == BagCardinality([c \in Outstanding(ops) |-> calls[c]])

Issue(c) == calls (+) SetToBag({c})
Consume(c) == calls (-) SetToBag({c})

IsUnauthorized(reply) == reply.hasResponse /\ reply.status = Unauthorized

\* Request interceptor, up to its await: the request is held, with no header
\* yet, while SecureStore.getItemAsync('auth_token') is awaited.
Held(c) == [c EXCEPT !.phase = "called", !.auth = <<>>]

\* The secure store answers the interceptor's read of call c.
InterceptorRead(c) ==
    /\ c.phase = "called"
    /\ calls' = Consume(c) (+) SetToBag({[c EXCEPT !.phase = "read", !.auth = AuthHeader]})

\* Request interceptor after its await: the header is set if a token was
\* read, and the request is sent.
InterceptorSend(c) ==
    /\ c.phase = "read"
    /\ calls' = Consume(c) (+) SetToBag({[c EXCEPT !.phase = "sent"]})

\* A 401 arrives for call c.  The response interceptor awaits the deletion of
\* 'auth_token' before it rejects, so the operation's caller resumes in a
\* later slice, with the result the operation's catch makes of the error.
Respond401(c, reply) ==
    /\ c.phase = "sent"
    /\ IsUnauthorized(reply)
    /\ store' = ResponseInterceptor(reply)
    /\ calls' = Consume(c) (+) SetToBag({[c EXCEPT !.phase = "settled",
                                             !.unauthorized = TRUE,
                                             !.result = Settle(reply)]})

----------------------------------------------------------------------------
(* app/(tabs)/scanner.tsx: ScannerScreen.                                  *)

ObjText(k1, v1, k2, v2) == <<"{", k1, ":", v1, ",", k2, ":", v2, "}">>

\* The texts a QR code can carry or the guard can paste.
QrTexts ==
    { ObjText("invitationId", "inv1", "qrCode", "q1"),
      ObjText("qrCode", "q2", "invitationId", "inv2"),
      <<"{", "invitationId", ":", "inv1", "}">>,
      ObjText("invitationId", "", "qrCode", "q1"),
      <<"inv1", "q1">>,
      <<NullStr>> }

\* The texts the guard can leave in the manual-entry field.
ManualTexts ==
    { <<Whitespace>>,
      ObjText("invitationId", "inv1", "qrCode", "q1"),
      <<"{", "invitationId", ":", "inv1", "}">> }

\* The codes the guard can leave in the OTP field (maxLength 6).
OtpCodes ==
    { <<"1", "2">>, <<"4", "8", "2", "9", "1", "3">> }

ScannerOps == {"scanGuest", "verifyOtp"}

Denied(message) == [success |-> FALSE, message |-> message]

\* (mutant) processScan checking invitationId only.
ParseScanSkipsQrCode(qrData) ==
    LET p == JSONParse(qrData)
    IN  IF ~p.ok THEN [throws |-> TRUE, message |-> "Invalid QR code format"]
        ELSE IF ~p.isObject /\ p.scalar = NullStr
        THEN [throws |-> TRUE, message |-> "Cannot read properties of null"]
        ELSE LET parsedData == IF p.isObject THEN p.fields ELSE EmptyObject
             IN  IF Falsy(Get(parsedData, "invitationId"))
                 THEN [throws |-> TRUE, message |-> "Missing required QR data"]
                 ELSE [throws |-> FALSE, parsedData |-> parsedData]

\* processScan up to the request: JSON.parse and the two field checks.
\* Reading a property of null throws a TypeError, caught like the others.
ParseScan(qrData) ==
    LET p == JSONParse(qrData)
    IN  IF ~p.ok THEN [throws |-> TRUE, message |-> "Invalid QR code format"]
        ELSE IF ~p.isObject /\ p.scalar = NullStr
        THEN [throws |-> TRUE, message |-> "Cannot read properties of null"]
        ELSE LET parsedData == IF p.isObject THEN p.fields ELSE EmptyObject
             IN  IF Falsy(Get(parsedData, "invitationId"))
                    \/ Falsy(Get(parsedData, "qrCode"))
                 THEN [throws |-> TRUE, message |-> "Missing required QR data"]
                 ELSE [throws |-> FALSE, parsedData |-> parsedData]

\* The body of the scan-guest request.
ScanGuestBody(parsedData) ==
    [invitationId |-> Get(parsedData, "invitationId"),
     qrCode |-> Get(parsedData, "qrCode")]

\* (mutant) verify-otp sending the two fields of the pair swapped.
VerifyOtpBodySwapped(pending, code) ==
    [invitationId |-> Get(pending, "qrCode"),
     qrCode |-> Get(pending, "invitationId"),
     otpCode |-> code]

\* The body of the verify-otp request.
VerifyOtpBody(pending, code) ==
    [invitationId |-> Get(pending, "invitationId"),
     qrCode |-> Get(pending, "qrCode"),
     otpCode |-> code]

\* processScan from its start to the await on scanGuest (or to its end, when
\* the text is rejected: catch and finally run in the same slice).
ProcessScan(qrData, via) ==
    LET r == ParseScan(qrData)
    IN  IF r.throws
        THEN /\ scanResult' = Denied(OrElse(r.message, "Scan failed"))
             /\ isProcessing' = FALSE
             /\ manualQrCode' = IF via = "manual" THEN <<>> ELSE manualQrCode
             /\ UNCHANGED calls
        ELSE /\ NumOutstanding(ScannerOps) < MaxScannerCalls
             /\ isProcessing' = TRUE
             /\ calls' = Issue(Request("scanGuest", via, ScanGuestBody(r.parsedData),
                                       qrData, r.parsedData, Null))
             /\ UNCHANGED <<scanResult, manualQrCode>>

\* The useState cells of the screen, as one record.
ScanState ==
    [scanned |-> scanned, scanResult |-> scanResult,
     showManualEntry |-> showManualEntry, showOtpModal |-> showOtpModal,
     manualQrCode |-> manualQrCode, otpCode |-> otpCode,
     isProcessing |-> isProcessing, pendingOtpData |-> pendingOtpData]

\* The screen's cells become those of record t.
SetScanState(t) ==
    /\ scanned' = t.scanned
    /\ scanResult' = t.scanResult
    /\ showManualEntry' = t.showManualEntry
    /\ showOtpModal' = t.showOtpModal
    /\ manualQrCode' = t.manualQrCode
    /\ otpCode' = t.otpCode
    /\ isProcessing' = t.isProcessing
    /\ pendingOtpData' = t.pendingOtpData

\* (mutant) resetScanner leaving the entered code.
ResetKeepsOtpCode(s) ==
    [s EXCEPT !.scanned = FALSE, !.scanResult = Null, !.pendingOtpData = Null]

\* (mutant) resetScanner leaving the result of the last scan.
ResetKeepsResult(s) ==
    [s EXCEPT !.scanned = FALSE, !.otpCode = <<>>, !.pendingOtpData = Null]

\* resetScanner
ResetScannerState(s) ==
    [s EXCEPT !.scanned = FALSE, !.scanResult = Null, !.otpCode = <<>>,
              !.pendingOtpData = Null]

\* onPress of the OTP modal's Cancel: setShowOtpModal(false); resetScanner()
OtpCancelState(s) == ResetScannerState([s EXCEPT !.showOtpModal = FALSE])

\* Alert.alert is a modal native dialog: no control of the screen can be
\* pressed while one is shown.
NoAlert == alerts = {}

\* The camera view is rendered only while !scanned.
HandleBarCodeScanned(data) ==
    /\ ~scanned
    /\ ~(scanned \/ isProcessing)
    /\ scanned' = TRUE
    /\ ProcessScan(data, "camera")
    /\ UNCHANGED <<securityVars, store, showManualEntry, showOtpModal, otpCode, pendingOtpData,
                   alerts, pollerVars, authVars>>

\* The Manual Entry control is rendered only while !scanned; a visible modal
\* covers it.
OpenManualEntry ==
    /\ NoAlert
    /\ ~scanned /\ ~showManualEntry /\ ~showOtpModal
    /\ showManualEntry' = TRUE
    /\ UNCHANGED <<securityVars, store, calls, scanned, scanResult, showOtpModal, manualQrCode,
                   otpCode, isProcessing, pendingOtpData, alerts, pollerVars, authVars>>

CloseManualEntry ==
    /\ NoAlert
    /\ showManualEntry
    /\ showManualEntry' = FALSE
    /\ UNCHANGED <<securityVars, store, calls, scanned, scanResult, showOtpModal, manualQrCode,
                   otpCode, isProcessing, pendingOtpData, alerts, pollerVars, authVars>>

SetManualQrCode(text) ==
    /\ NoAlert
    /\ showManualEntry
    /\ manualQrCode # text
    /\ manualQrCode' = text
    /\ UNCHANGED <<securityVars, store, calls, scanned, scanResult, showManualEntry, showOtpModal,
                   otpCode, isProcessing, pendingOtpData, alerts, pollerVars, authVars>>

\* The Submit button of the manual-entry modal (disabled on a blank text).
HandleManualEntry ==
    /\ NoAlert
    /\ showManualEntry
    /\ Trim(manualQrCode) # <<>>
    /\ showManualEntry' = FALSE
    /\ scanned' = TRUE
    /\ ProcessScan(manualQrCode, "manual")
    /\ UNCHANGED <<securityVars, store, showOtpModal, otpCode, pendingOtpData, alerts, pollerVars, authVars>>

\* What processScan sets once scanGuest has resolved with response r.
ScanOutcome(r, parsedData) ==
    IF r.success /\ r.data # Null
    THEN IF r.data.status = "pending_otp"
         THEN [pendingOtpData |-> parsedData,
               scanResult |->
                   [success |-> TRUE, message |-> "OTP Required",
                    guestName |-> r.data.invitation.guestName,
                    guestPhone |-> r.data.invitation.guestPhone,
                    securityLevel |-> r.data.invitation.securityLevel,
                    requiresOtp |-> TRUE,
                    invitationId |-> Get(parsedData, "invitationId"),
                    qrCode |-> Get(parsedData, "qrCode")],
               showOtpModal |-> TRUE]
         ELSE IF r.data.status = "success"
         THEN [pendingOtpData |-> pendingOtpData,
               scanResult |->
                   [success |-> TRUE,
                    message |-> OrElse(r.data.message, "Access Granted"),
                    guestName |-> r.data.invitation.guestName,
                    guestPhone |-> r.data.invitation.guestPhone,
                    securityLevel |-> r.data.invitation.securityLevel,
                    requiresOtp |-> FALSE],
               showOtpModal |-> showOtpModal]
         ELSE [pendingOtpData |-> pendingOtpData,
               scanResult |->
                   Denied(OrElse(OrElse(r.data.message, "Scan failed"), "Scan failed")),
               showOtpModal |-> showOtpModal]
    ELSE [pendingOtpData |-> pendingOtpData,
          scanResult |-> Denied(OrElse(OrElse(r.error, "Scan failed"), "Scan failed")),
          showOtpModal |-> showOtpModal]

\* processScan after its await; handleManualEntry then clears its field.
ProcessScanResume(c, r) ==
    /\ c.op = "scanGuest"
    /\ LET out == ScanOutcome(r, c.parsedData)
       IN  /\ pendingOtpData' = out.pendingOtpData
           /\ scanResult' = out.scanResult
           /\ showOtpModal' = out.showOtpModal
    /\ isProcessing' = FALSE
    /\ manualQrCode' = IF c.via = "manual" THEN <<>> ELSE manualQrCode
    /\ calls' = Consume(c)
    /\ UNCHANGED <<securityVars, store, scanned, showManualEntry, otpCode, alerts, pollerVars, authVars>>

SetOtpCode(code) ==
    /\ NoAlert
    /\ showOtpModal
    /\ otpCode # code
    /\ otpCode' = code
    /\ UNCHANGED <<securityVars, store, calls, scanned, scanResult, showManualEntry, showOtpModal,
                   manualQrCode, isProcessing, pendingOtpData, alerts, pollerVars, authVars>>

\* The Verify button is disabled on a blank code and while isProcessing.
VerifyEnabled == NoAlert /\ showOtpModal /\ Trim(otpCode) # <<>> /\ ~isProcessing

\* scanResult?.field
Optional(record, field) ==
    IF record # Null /\ field \in DOMAIN record THEN record[field] ELSE Undefined

\* What handleVerifyOtp reads of scanResult after its await: the fields of the
\* render the handler was called in.
GuestFields(result) ==
    [guestName |-> Optional(result, "guestName"),
     guestPhone |-> Optional(result, "guestPhone"),
     securityLevel |-> Optional(result, "securityLevel")]

\* handleVerifyOtp up to its await.
HandleVerifyOtp ==
    /\ VerifyEnabled
    /\ ~(Trim(otpCode) = <<>> \/ pendingOtpData = Null)
    /\ NumOutstanding(ScannerOps) < MaxScannerCalls
    /\ isProcessing' = TRUE
    /\ calls' = Issue(Request("verifyOtp", "otp", VerifyOtpBody(pendingOtpData, otpCode),
                              <<>>, EmptyObject, GuestFields(scanResult)))
    /\ UNCHANGED <<securityVars, store, scanned, scanResult, showManualEntry, showOtpModal,
                   manualQrCode, otpCode, pendingOtpData, alerts, pollerVars, authVars>>

VerifyAccepted(r) == r.success /\ r.data # Null

\* The scan result handleVerifyOtp sets on success.
VerifiedResult(r, saved) ==
    [success |-> TRUE,
     message |-> OrElse(r.data.message, "Access Granted"),
     guestName |-> saved.guestName,
     guestPhone |-> saved.guestPhone,
     securityLevel |-> saved.securityLevel,
     requiresOtp |-> FALSE]

\* handleVerifyOtp after its await, the server having accepted the code.
VerifyOtpSuccess(c, r) ==
    /\ c.op = "verifyOtp"
    /\ VerifyAccepted(r)
    /\ scanResult' = VerifiedResult(r, c.saved)
    /\ showOtpModal' = FALSE
    /\ otpCode' = <<>>
    /\ pendingOtpData' = Null
    /\ isProcessing' = FALSE
    /\ calls' = Consume(c)
    /\ UNCHANGED <<securityVars, store, scanned, showManualEntry, manualQrCode, alerts, pollerVars, authVars>>

\* (mutant) a failed verify attempt ending the OTP flow like a failed scan.
VerifyFailureDenies(s) ==
    [s EXCEPT !.isProcessing = FALSE, !.showOtpModal = FALSE,
              !.scanResult = Denied("Invalid OTP")]

\* The cells a failed verify attempt sets (catch, finally).
VerifyFailureState(s) == [s EXCEPT !.isProcessing = FALSE]

\* Alert.alert('Error', error.message || 'OTP verification failed'), the error
\* being new Error(response.error || 'Invalid OTP').
VerifyFailureAlert(r) ==
    [title |-> "Error",
     message |-> OrElse(OrElse(r.error, "Invalid OTP"), "OTP verification failed")]

\* handleVerifyOtp after its await, the call having failed: catch, finally.
VerifyOtpFailure(c, r) ==
    /\ c.op = "verifyOtp"
    /\ ~VerifyAccepted(r)
    /\ SetScanState(VerifyFailureState(ScanState))
    /\ alerts' = alerts \cup {VerifyFailureAlert(r)}
    /\ calls' = Consume(c)
    /\ UNCHANGED <<securityVars, store, pollerVars, authVars>>

\* The guard closes an alert.
DismissAlert(a) ==
    /\ a \in alerts
    /\ alerts' = alerts \ {a}
    /\ UNCHANGED <<securityVars, store, calls, scannerVars, pollerVars, authVars>>

\* The Cancel button of the OTP modal (disabled while isProcessing).
OtpCancel ==
    /\ NoAlert
    /\ showOtpModal /\ ~isProcessing
    /\ SetScanState(OtpCancelState(ScanState))
    /\ UNCHANGED <<securityVars, store, calls, alerts, pollerVars, authVars>>

\* The Scan Another button of the result card (rendered while scanned; a
\* visible modal covers it).
ResetScanner ==
    /\ NoAlert
    /\ scanned /\ ~showOtpModal /\ ~showManualEntry
    /\ SetScanState(ResetScannerState(ScanState))
    /\ UNCHANGED <<securityVars, store, calls, alerts, pollerVars, authVars>>

\* The title of the result card, which is rendered in place of the camera
\* whenever scanned, under the transparent OTP surface: scanResult?.success ?
\* 'Access Granted' : 'Access Denied'.
ResultTitle(result) ==
    IF result # Null /\ result.success THEN "Access Granted" ELSE "Access Denied"

----------------------------------------------------------------------------
(* app/(tabs)/my-qr.tsx: MyQRScreen, the guard's QR and the poller of       *)
(* pending actions.                                                        *)

\* Poll every 3 seconds.
POLLING_INTERVAL == 3000

\* PendingL3Scan and PendingL4Otp items the server can report.
Carol == [invitationId |-> "inv3a", guestName |-> "Carol", securityLevel |-> 3]
Dan == [invitationId |-> "inv3b", guestName |-> "Dan", securityLevel |-> 3]
Erin == [invitationId |-> "inv4a", guestName |-> "Erin", securityLevel |-> 4]
Farid == [invitationId |-> "inv4b", guestName |-> "Farid", securityLevel |-> 4]

\* The lists of pending items a response can carry, per tier.
PendingL3Lists == { <<>>, <<Dan>>, <<Carol, Dan>> }
PendingL4Lists == { <<>>, <<Farid>>, <<Erin, Farid>> }

PendingActions(h3, l3, h4, l4) ==
    ApiResponse(TRUE, [hasL3Scans |-> h3, hasL4Otps |-> h4,
                       pendingL3Scans |-> l3, pendingL4Otps |-> l4], Undefined)

\* apiService.checkPendingActions: the bodies of a 2xx response.  The operation
\* is called by MyQRScreen but is not among those of services/apiService.ts;
\* it is taken to be one more operation of the same client (same interceptors,
\* handleResponse and handleError), answering with the four fields the screen
\* reads.  Each flag tells whether its list has items; a few bodies have a
\* flag that disagrees with its list.
PendingActionsBodies ==
    { PendingActions(Len(l3) > 0, l3, Len(l4) > 0, l4) :
        l3 \in PendingL3Lists, l4 \in PendingL4Lists }
    \cup { PendingActions(Len(l3) = 0, l3, FALSE, <<>>) : l3 \in PendingL3Lists }
    \cup { PendingActions(FALSE, <<>>, Len(l4) = 0, l4) : l4 \in PendingL4Lists }
    \cup { ApiResponse(FALSE, Null, e) : e \in ServerErrors }

\* apiService.getGuardQR: the bodies of a 2xx response.
GuardQRBodies ==
    { ApiResponse(TRUE, [qrCode |-> q], Undefined) : q \in {"guard-qr-1"} }
    \cup { ApiResponse(FALSE, Null, e) : e \in ServerErrors }

\* What the guard can type in the tier-four OTP field (maxLength 6).
OtpInputs == {<<"1", "2">>, <<"4", "8", "2", "9", "1", "3">>}

\* The cells of MyQRScreen that the poller and the handlers of the two
\* surfaces set, as one record.
PollState ==
    [showL3Modal |-> showL3Modal, l3ScanData |-> l3ScanData,
     showL4Modal |-> showL4Modal, l4OtpData |-> l4OtpData, otpInput |-> otpInput]

SetPollState(t) ==
    /\ showL3Modal' = t.showL3Modal
    /\ l3ScanData' = t.l3ScanData
    /\ showL4Modal' = t.showL4Modal
    /\ l4OtpData' = t.l4OtpData
    /\ otpInput' = t.otpInput

\* The values of showL3Modal and showL4Modal that the functions of a render
\* close over.
RenderClosure == [showL3Modal |-> showL3Modal, showL4Modal |-> showL4Modal]

\* The request of one checkPendingActions call made by the functions of
\* render `closure`.
PollRequest(closure) == Request("checkPendingActions", "poll", Null, Null, Null, closure)

\* loadQRCode up to its await.
LoadQRRequest == Request("getGuardQR", "load", Null, Null, Null, Null)

\* The mount effect: loadQRCode(), startPolling().  The effect has no
\* dependencies, so the timer's callback calls the checkPendingActions of the
\* first render for as long as the timer lives.
Mount ==
    /\ lifecycle = "constructed"
    /\ lifecycle' = "mounted"
    /\ myQrIsLoading' = TRUE
    /\ pollClosure' = RenderClosure
    /\ pollingIntervalRef' = [interval |-> POLLING_INTERVAL]
    /\ calls' = (calls (+) SetToBag({LoadQRRequest})) (+) SetToBag({PollRequest(RenderClosure)})
    /\ UNCHANGED <<securityVars, store, alerts, scannerVars, authVars, myQrData, showL3Modal,
                   showL4Modal, l3ScanData, l4OtpData, otpInput, isVerifyingOtp>>

\* The timer fires: checkPendingActions up to its await.
Tick ==
    /\ pollingIntervalRef # Null
    /\ NumOutstanding({"checkPendingActions"}) < MaxPollCalls
    /\ calls' = Issue(PollRequest(pollClosure))
    /\ UNCHANGED <<securityVars, store, alerts, scannerVars, pollerVars, authVars>>

\* (mutant) a cleanup that leaves the timer running.
UnmountLeavesTimer ==
    /\ lifecycle = "mounted"
    /\ lifecycle' = "unmounted"
    /\ UNCHANGED <<securityVars, store, calls, alerts, scannerVars, authVars, myQrData, myQrIsLoading,
                   showL3Modal, showL4Modal, l3ScanData, l4OtpData, otpInput,
                   isVerifyingOtp, pollingIntervalRef, pollClosure>>

\* The cleanup of the mount effect: stopPolling().  The cells of the instance
\* are gone with it; responses that arrive later set nothing.
Unmount ==
    /\ lifecycle = "mounted"
    /\ lifecycle' = "unmounted"
    /\ pollingIntervalRef' = Null
    /\ UNCHANGED <<securityVars, store, calls, alerts, scannerVars, authVars, myQrData, myQrIsLoading,
                   showL3Modal, showL4Modal, l3ScanData, l4OtpData, otpInput,
                   isVerifyingOtp, pollClosure>>

\* response.success && response.data
PollAccepted(r) == r.success /\ r.data # Null

\* (mutant) a poll that surfaces tier-four items only.
SurfaceTierFourOnly(s, data, closure) ==
    IF data.hasL4Otps /\ Len(data.pendingL4Otps) > 0 /\ ~closure.showL4Modal
    THEN [s EXCEPT !.l4OtpData = data.pendingL4Otps[1], !.showL4Modal = TRUE]
    ELSE s

\* checkPendingActions after its await, for the data of a successful response:
\* per tier, the first item of the list is surfaced if the flag is set, the list
\* is not empty and the modal is not shown in the render the function belongs
\* to.
SurfacePending(s, data, closure) ==
    LET s3 == IF data.hasL3Scans /\ Len(data.pendingL3Scans) > 0 /\ ~closure.showL3Modal
              THEN [s EXCEPT !.l3ScanData = data.pendingL3Scans[1], !.showL3Modal = TRUE]
              ELSE s
    IN  IF data.hasL4Otps /\ Len(data.pendingL4Otps) > 0 /\ ~closure.showL4Modal
        THEN [s3 EXCEPT !.l4OtpData = data.pendingL4Otps[1], !.showL4Modal = TRUE]
        ELSE s3

\* (mutant) a failed poll taking the surfaced items down.
PollErrorClearsSurfaces(s) ==
    [s EXCEPT !.showL3Modal = FALSE, !.l3ScanData = Null,
              !.showL4Modal = FALSE, !.l4OtpData = Null]

\* checkPendingActions after its await, for a response that is not a success
\* with data: nothing is set (the catch only logs).
SwallowPollError(s) == s

CheckPendingActionsSuccess(c, r) ==
    /\ c.op = "checkPendingActions"
    /\ PollAccepted(r)
    /\ calls' = Consume(c)
    /\ IF lifecycle = "mounted"
       THEN SetPollState(SurfacePending(PollState, r.data, c.saved))
       ELSE SetPollState(PollState)
    /\ UNCHANGED <<securityVars, store, alerts, scannerVars, authVars, lifecycle, myQrData,
                   myQrIsLoading, isVerifyingOtp, pollingIntervalRef, pollClosure>>

CheckPendingActionsFailure(c, r) ==
    /\ c.op = "checkPendingActions"
    /\ ~PollAccepted(r)
    /\ calls' = Consume(c)
    /\ SetPollState(SwallowPollError(PollState))
    /\ UNCHANGED <<securityVars, store, alerts, scannerVars, authVars, lifecycle, myQrData,
                   myQrIsLoading, isVerifyingOtp, pollingIntervalRef, pollClosure>>

\* The controls of the screen can be pressed when it is mounted, it shows more
\* than the loading indicator, and no alert is up.
MyQrShown == lifecycle = "mounted" /\ ~myQrIsLoading /\ NoAlert

\* (mutant) an acknowledgement that takes the tier-four surface down too.
AcknowledgeClearsBoth(s) ==
    [s EXCEPT !.showL3Modal = FALSE, !.l3ScanData = Null,
              !.showL4Modal = FALSE, !.l4OtpData = Null, !.otpInput = <<>>]

\* handleL3Acknowledge
L3AcknowledgedState(s) == [s EXCEPT !.showL3Modal = FALSE, !.l3ScanData = Null]

L4ClearedState(s) ==
    [s EXCEPT !.showL4Modal = FALSE, !.l4OtpData = Null, !.otpInput = <<>>]

\* The Acknowledge button (or the back key) of the tier-three modal.
HandleL3Acknowledge ==
    /\ MyQrShown /\ showL3Modal
    /\ SetPollState(L3AcknowledgedState(PollState))
    /\ UNCHANGED <<securityVars, store, calls, alerts, scannerVars, authVars, lifecycle, myQrData,
                   myQrIsLoading, isVerifyingOtp, pollingIntervalRef, pollClosure>>

\* The Cancel button (or the back key) of the tier-four modal.
HandleCancelL4 ==
    /\ MyQrShown /\ showL4Modal
    /\ SetPollState(L4ClearedState(PollState))
    /\ UNCHANGED <<securityVars, store, calls, alerts, scannerVars, authVars, lifecycle, myQrData,
                   myQrIsLoading, isVerifyingOtp, pollingIntervalRef, pollClosure>>

\* The guard types in the OTP field of the tier-four modal.
SetOtpInput(code) ==
    /\ MyQrShown /\ showL4Modal /\ l4OtpData # Null
    /\ otpInput' = code
    /\ UNCHANGED <<securityVars, store, calls, alerts, scannerVars, authVars, lifecycle, myQrData,
                   myQrIsLoading, showL3Modal, showL4Modal, l3ScanData, l4OtpData,
                   isVerifyingOtp, pollingIntervalRef, pollClosure>>

\* apiService.verifyOtp(invitationId, qrCode, otpCode) called with one object:
\* the object is the first argument, the other two are undefined.
VerifyL4OtpBody(l4, code) ==
    [invitationId |-> [invitationId |-> l4.invitationId, otpCode |-> code],
     qrCode |-> Undefined, otpCode |-> Undefined]

\* The Verify OTP button of the tier-four modal (disabled while verifying and
\* unless six characters are entered): handleVerifyOtp up to its await.
HandleVerifyL4Otp ==
    /\ MyQrShown /\ showL4Modal
    /\ ~isVerifyingOtp /\ Len(otpInput) = 6
    /\ otpInput # <<>> /\ l4OtpData # Null
    /\ isVerifyingOtp' = TRUE
    /\ calls' = Issue(Request("verifyOtp", "l4", VerifyL4OtpBody(l4OtpData, otpInput),
                              Null, Null, l4OtpData))
    /\ UNCHANGED <<securityVars, store, alerts, scannerVars, authVars, lifecycle, myQrData,
                   myQrIsLoading, showL3Modal, showL4Modal, l3ScanData, l4OtpData,
                   otpInput, pollingIntervalRef, pollClosure>>

\* The alert handleVerifyOtp raises for result r.
VerifyL4OtpAlert(r, l4) ==
    IF r.success
    THEN [title |-> "Access Granted", message |-> l4.guestName, onPress |-> "clear L4"]
    ELSE [title |-> "Error", message |-> OrElse(r.error, "Invalid OTP code"),
          onPress |-> Undefined]

\* handleVerifyOtp after its await.
VerifyL4OtpResume(c, r) ==
    /\ c.op = "verifyOtp" /\ c.via = "l4"
    /\ calls' = Consume(c)
    /\ alerts' = alerts \cup {VerifyL4OtpAlert(r, c.saved)}
    /\ isVerifyingOtp' = IF lifecycle = "mounted" THEN FALSE ELSE isVerifyingOtp
    /\ UNCHANGED <<securityVars, store, scannerVars, authVars, lifecycle, myQrData, myQrIsLoading,
                   showL3Modal, showL4Modal, l3ScanData, l4OtpData, otpInput,
                   pollingIntervalRef, pollClosure>>

\* The guard presses the button of an alert of this screen.
DismissMyQrAlert(a) ==
    /\ a \in alerts
    /\ alerts' = alerts \ {a}
    /\ IF a.onPress = "clear L4" /\ lifecycle = "mounted"
       THEN SetPollState(L4ClearedState(PollState))
       ELSE SetPollState(PollState)
    /\ UNCHANGED <<securityVars, store, calls, scannerVars, authVars, lifecycle, myQrData,
                   myQrIsLoading, isVerifyingOtp, pollingIntervalRef, pollClosure>>

\* The Refresh QR button (a shown modal covers it): loadQRCode up to its await.
LoadQRCode ==
    /\ MyQrShown /\ ~showL3Modal /\ ~showL4Modal
    /\ myQrIsLoading' = TRUE
    /\ calls' = Issue(LoadQRRequest)
    /\ UNCHANGED <<securityVars, store, alerts, scannerVars, authVars, lifecycle, myQrData,
                   showL3Modal, showL4Modal, l3ScanData, l4OtpData, otpInput,
                   isVerifyingOtp, pollingIntervalRef, pollClosure>>

\* loadQRCode after its await.
LoadQRCodeResume(c, r) ==
    /\ c.op = "getGuardQR"
    /\ calls' = Consume(c)
    /\ myQrData' = IF lifecycle = "mounted" /\ r.success /\ r.data # Null
                   THEN r.data.qrCode ELSE myQrData
    /\ myQrIsLoading' = IF lifecycle = "mounted" THEN FALSE ELSE myQrIsLoading
    /\ UNCHANGED <<securityVars, store, alerts, scannerVars, authVars, lifecycle, showL3Modal,
                   showL4Modal, l3ScanData, l4OtpData, otpInput, isVerifyingOtp,
                   pollingIntervalRef, pollClosure>>

\* A request of this screen is answered 401.
MyQrRespond401(c, reply) ==
    /\ Respond401(c, reply)
    /\ UNCHANGED <<securityVars, alerts, scannerVars, pollerVars, authVars>>

MyQrCalls == { c \in BagToSet(calls) : c.via \in {"poll", "load", "l4"} }

----------------------------------------------------------------------------
(* contexts/AuthContext.tsx: AuthProvider, and the calls the screens make   *)
(* of the API client.  One of checkAuth, login and logout runs at a time:  *)
(* checkAuth runs at mount, the login screen disables its button while     *)
(* isLoading, and the profile screen shows Logout to a logged-in guard.    *)

\* const isAuthenticated = !!guard && !!token
IsAuthenticated == guard # Null /\ ~Falsy(token)

\* An absent 'guard_data' item reads as null, which is as falsy as the empty
\* text.
NoText == <<>>

Idle == [at |-> "idle"]

Credentials == [username |-> "asha", password |-> "secret"]

\* JSON.stringify(guardData)
Stringify(g) == ObjText("id", g.id, "username", g.username)

\* JSON.parse(storedGuard), as a guard.
ParseGuard(text) ==
    LET parsed == JSONParse(text)
    IN  IF parsed.ok /\ parsed.isObject
        THEN [id |-> Get(parsed.fields, "id"), username |-> Get(parsed.fields, "username")]
        ELSE Null

\* checkAuth up to its first await: SecureStore.getItemAsync('auth_token').
CheckAuth ==
    /\ authPc.at = "start"
    /\ isLoading' = TRUE
    /\ authPc' = [at |-> "checkAuth: token", storedToken |-> store.auth_token]
    /\ UNCHANGED <<securityVars, loginResult, store, calls, alerts, scannerVars, pollerVars, guard, token>>

\* checkAuth up to its second await: SecureStore.getItemAsync('guard_data').
CheckAuthReadGuard ==
    /\ authPc.at = "checkAuth: token"
    /\ authPc' = [at |-> "checkAuth: guard", storedToken |-> authPc.storedToken,
                  storedGuard |-> store.guard_data]
    /\ UNCHANGED <<securityVars, loginResult, store, calls, alerts, scannerVars, pollerVars, guard, token, isLoading>>

\* (mutant) a checkAuth that reads the store and restores nothing.
CheckAuthNeverRestores ==
    /\ authPc.at = "checkAuth: guard"
    /\ isLoading' = FALSE
    /\ authPc' = Idle
    /\ UNCHANGED <<securityVars, loginResult, store, calls, alerts, scannerVars, pollerVars, guard, token>>

\* checkAuth after its second await: if both items are there, setToken and
\* then setGuard(JSON.parse(storedGuard)), which is skipped when the parse
\* throws; finally.
CheckAuthRestore ==
    /\ authPc.at = "checkAuth: guard"
    /\ LET both == ~Falsy(authPc.storedToken) /\ authPc.storedGuard # NoText
       IN  /\ token' = IF both THEN authPc.storedToken ELSE token
           /\ guard' = IF both /\ JSONParse(authPc.storedGuard).ok
                       THEN ParseGuard(authPc.storedGuard) ELSE guard
    /\ isLoading' = FALSE
    /\ authPc' = Idle
    /\ UNCHANGED <<securityVars, loginResult, store, calls, alerts, scannerVars, pollerVars>>

\* checkAuth when one of its two reads of the secure store rejects: catch,
\* which only logs; finally.
CheckAuthThrows ==
    /\ authPc.at \in {"checkAuth: token", "checkAuth: guard"}
    /\ isLoading' = FALSE
    /\ authPc' = Idle
    /\ UNCHANGED <<securityVars, loginResult, store, calls, alerts, scannerVars, pollerVars, guard, token>>

\* login up to its await of apiService.login.
Login ==
    /\ authPc = Idle /\ ~IsAuthenticated /\ ~isLoading
    /\ isLoading' = TRUE
    /\ calls' = Issue(Held(Request("login", "auth", Credentials, Null, Null, Null)))
    /\ authPc' = [at |-> "login: response"]
    /\ loginResult' = Null
    /\ UNCHANGED <<securityVars, store, alerts, scannerVars, pollerVars, guard, token>>

\* (mutant) a login that drops the stored token when the server refuses.
LoginResumeClearsStore(c, r) ==
    /\ c.op = "login" /\ authPc.at = "login: response"
    /\ calls' = Consume(c)
    /\ IF r.success /\ r.data # Null
       THEN /\ store' = [store EXCEPT !.auth_token = r.data.token]
            /\ authPc' = [at |-> "login: token stored", data |-> r.data]
            /\ UNCHANGED <<isLoading, loginResult>>
       ELSE /\ isLoading' = FALSE
            /\ authPc' = Idle
            /\ loginResult' = [success |-> FALSE, error |-> OrElse(r.error, "Login failed")]
            /\ store' = [store EXCEPT !.auth_token = NullStr]
    /\ UNCHANGED <<securityVars, alerts, scannerVars, pollerVars, guard, token>>

\* login after apiService.login returns: on success the token is stored
\* (first setItemAsync); otherwise { success: false, error: response.error ||
\* 'Login failed' } is returned; finally.
LoginResume(c, r) ==
    /\ c.op = "login" /\ authPc.at = "login: response"
    /\ calls' = Consume(c)
    /\ IF r.success /\ r.data # Null
       THEN /\ store' = [store EXCEPT !.auth_token = r.data.token]
            /\ authPc' = [at |-> "login: token stored", data |-> r.data]
            /\ UNCHANGED <<isLoading, loginResult>>
       ELSE /\ isLoading' = FALSE
            /\ authPc' = Idle
            /\ loginResult' = [success |-> FALSE, error |-> OrElse(r.error, "Login failed")]
            /\ UNCHANGED store
    /\ UNCHANGED <<securityVars, alerts, scannerVars, pollerVars, guard, token>>

\* login: the second setItemAsync, of JSON.stringify(guardData).
LoginStoreGuard ==
    /\ authPc.at = "login: token stored"
    /\ store' = [store EXCEPT !.guard_data = Stringify(authPc.data.guard)]
    /\ authPc' = [at |-> "login: guard stored", data |-> authPc.data]
    /\ UNCHANGED <<securityVars, loginResult, calls, alerts, scannerVars, pollerVars, guard, token, isLoading>>

\* login: setToken, setGuard, return { success: true }; finally.
LoginFinish ==
    /\ authPc.at = "login: guard stored"
    /\ token' = authPc.data.token
    /\ guard' = authPc.data.guard
    /\ isLoading' = FALSE
    /\ authPc' = Idle
    /\ loginResult' = [success |-> TRUE]
    /\ UNCHANGED <<securityVars, store, calls, alerts, scannerVars, pollerVars>>

\* logout up to its first await: apiService.logout() deletes 'auth_token'.
Logout ==
    /\ authPc = Idle /\ IsAuthenticated
    /\ isLoading' = TRUE
    /\ store' = [store EXCEPT !.auth_token = NullStr]
    /\ authPc' = [at |-> "logout: api"]
    /\ UNCHANGED <<securityVars, loginResult, calls, alerts, scannerVars, pollerVars, guard, token>>

\* logout: SecureStore.deleteItemAsync('auth_token').
LogoutDeleteToken ==
    /\ authPc.at = "logout: api"
    /\ store' = [store EXCEPT !.auth_token = NullStr]
    /\ authPc' = [at |-> "logout: token"]
    /\ UNCHANGED <<securityVars, loginResult, calls, alerts, scannerVars, pollerVars, guard, token, isLoading>>

\* logout: SecureStore.deleteItemAsync('guard_data').
LogoutDeleteGuard ==
    /\ authPc.at = "logout: token"
    /\ store' = [store EXCEPT !.guard_data = NoText]
    /\ authPc' = [at |-> "logout: guard"]
    /\ UNCHANGED <<securityVars, loginResult, calls, alerts, scannerVars, pollerVars, guard, token, isLoading>>

\* logout: setToken(null), setGuard(null); finally.
LogoutFinish ==
    /\ authPc.at = "logout: guard"
    /\ token' = NullStr
    /\ guard' = Null
    /\ isLoading' = FALSE
    /\ authPc' = Idle
    /\ UNCHANGED <<securityVars, loginResult, store, calls, alerts, scannerVars, pollerVars>>

\* The operations the screens of the tabs call.
ScreenOps == {"getDashboard", "getGuardQR", "scanGuest", "verifyOtp", "getProfile",
              "updateProfile"}

ScreenCalls == { c \in BagToSet(calls) : c.via = "screen" }

\* A screen of the tabs (shown to an authenticated guard) calls an operation.
CallApi(op) ==
    /\ IsAuthenticated
    /\ BagCardinality([c \in ScreenCalls |-> calls[c]]) < MaxApiCalls
    /\ calls' = Issue(Held(Request(op, "screen", Null, Null, Null, Null)))
    /\ UNCHANGED <<securityVars, store, alerts, scannerVars, pollerVars, authVars>>

\* The request interceptor's two steps, for a call of the session.
ReadToken(c) ==
    /\ InterceptorRead(c)
    /\ UNCHANGED <<securityVars, store, alerts, scannerVars, pollerVars, authVars>>

SendRequest(c) ==
    /\ InterceptorSend(c)
    /\ UNCHANGED <<securityVars, store, alerts, scannerVars, pollerVars, authVars>>

\* The operation returns its result to the screen that called it.
ApiReturn(c, r) ==
    /\ c.via = "screen"
    /\ calls' = Consume(c)
    /\ UNCHANGED <<securityVars, store, alerts, scannerVars, pollerVars, authVars>>

\* A request is answered 401.
Unauthorized401(c, reply) ==
    /\ Respond401(c, reply)
    /\ UNCHANGED <<securityVars, alerts, scannerVars, pollerVars, authVars>>

----------------------------------------------------------------------------
(* contexts/SecurityContext.tsx: SecurityProvider, the second session       *)
(* context of the repository.  Its functions are called by whoever consumes *)
(* it: logout and refreshGuardData of an authenticated session, and a       *)
(* refresh may be called while a logout is under way.                       *)

\* JSON.stringify(updatedGuard): members whose value is undefined are left out.
StringifyGuard(g) ==
    LET id == IF g.id = Undefined THEN <<>> ELSE <<"id", ":", g.id>>
        username == IF g.username = Undefined THEN <<>> ELSE <<"username", ":", g.username>>
        comma == IF id # <<>> /\ username # <<>> THEN <<",">> ELSE <<>>
    IN  <<"{">> \o id \o comma \o username \o <<"}">>

Done == [at |-> "done"]

\* useState(false), useState(true), useState(null); nothing runs before the
\* mount effect.
SecurityInit ==
    /\ secIsAuthenticated = FALSE
    /\ secIsLoading = TRUE
    /\ secGuard = Null
    /\ secPc = [at |-> "start"]
    /\ refreshPc = Idle

\* checkAuthStatus up to its first await: getItemAsync('auth_token').
CheckAuthStatus ==
    /\ secPc.at = "start"
    /\ secIsLoading' = TRUE
    /\ secPc' = [at |-> "checkAuthStatus: token", token |-> store.auth_token]
    /\ UNCHANGED <<store, calls, alerts, scannerVars, pollerVars, authVars,
                   secIsAuthenticated, secGuard, refreshPc>>

\* checkAuthStatus up to its second await: getItemAsync('guard_data').
CheckAuthStatusReadGuard ==
    /\ secPc.at = "checkAuthStatus: token"
    /\ secPc' = [at |-> "checkAuthStatus: guard", token |-> secPc.token,
                 guardData |-> store.guard_data]
    /\ UNCHANGED <<store, calls, alerts, scannerVars, pollerVars, authVars,
                   secIsAuthenticated, secIsLoading, secGuard, refreshPc>>

\* (mutant) a checkAuthStatus that restores the session on the stored guard
\* alone.
RestoredOnGuardData(tok, guardData) == guardData # NoText /\ JSONParse(guardData).ok

\* if (token && guardData), with JSON.parse(guardData) not throwing.
Restored(tok, guardData) ==
    ~Falsy(tok) /\ guardData # NoText /\ JSONParse(guardData).ok

\* checkAuthStatus after its second await: authenticated with the parsed
\* guard if both items are there, unauthenticated otherwise and when the
\* parse throws; finally.
CheckAuthStatusRestore ==
    /\ secPc.at = "checkAuthStatus: guard"
    /\ secIsAuthenticated' = Restored(secPc.token, secPc.guardData)
    /\ secGuard' = IF Restored(secPc.token, secPc.guardData)
                   THEN ParseGuard(secPc.guardData) ELSE Null
    /\ secIsLoading' = FALSE
    /\ secPc' = Idle
    /\ UNCHANGED <<store, calls, alerts, scannerVars, pollerVars, authVars, refreshPc>>

\* checkAuthStatus when a read of the secure store rejects: catch; finally.
CheckAuthStatusThrows ==
    /\ secPc.at \in {"checkAuthStatus: token", "checkAuthStatus: guard"}
    /\ secIsAuthenticated' = FALSE
    /\ secGuard' = Null
    /\ secIsLoading' = FALSE
    /\ secPc' = Idle
    /\ UNCHANGED <<store, calls, alerts, scannerVars, pollerVars, authVars, refreshPc>>

\* login up to its await of apiService.login.
SecurityLogin ==
    /\ secPc \in {Idle, Done} /\ ~secIsAuthenticated
    /\ secIsLoading' = TRUE
    /\ calls' = Issue(Held(Request("login", "security", Credentials, Null, Null, Null)))
    /\ secPc' = [at |-> "login: response"]
    /\ UNCHANGED <<store, alerts, scannerVars, pollerVars, authVars,
                   secIsAuthenticated, secGuard, refreshPc>>

\* login after apiService.login returns its ApiResponse, success or failure:
\* response.token is read off the ApiResponse itself, which has no such
\* member, and SecureStore.setItemAsync rejects a value that is not a string;
\* catch rethrows to the caller; finally.  The lines after the first
\* setItemAsync are never reached.
SecurityLoginResume(c, response) ==
    /\ c.op = "login" /\ secPc.at = "login: response"
    /\ calls' = Consume(c)
    /\ Get(response, "token") = Undefined
    /\ secIsLoading' = FALSE
    /\ secPc' = Idle
    /\ UNCHANGED <<store, alerts, scannerVars, pollerVars, authVars,
                   secIsAuthenticated, secGuard, refreshPc>>

\* logout up to its first await: deleteItemAsync('auth_token') is called.
SecurityLogout ==
    /\ secPc = Idle /\ secIsAuthenticated
    /\ secIsLoading' = TRUE
    /\ secPc' = [at |-> "logout: token"]
    /\ UNCHANGED <<store, calls, alerts, scannerVars, pollerVars, authVars,
                   secIsAuthenticated, secGuard, refreshPc>>

\* logout: 'auth_token' is deleted; deleteItemAsync('guard_data') is called.
SecurityLogoutDeleteToken ==
    /\ secPc.at = "logout: token"
    /\ store' = [store EXCEPT !.auth_token = NullStr]
    /\ secPc' = [at |-> "logout: guard"]
    /\ UNCHANGED <<calls, alerts, scannerVars, pollerVars, authVars,
                   secIsAuthenticated, secIsLoading, secGuard, refreshPc>>

\* logout: 'guard_data' is deleted.
SecurityLogoutDeleteGuard ==
    /\ secPc.at = "logout: guard"
    /\ store' = [store EXCEPT !.guard_data = NoText]
    /\ secPc' = [at |-> "logout: state"]
    /\ UNCHANGED <<calls, alerts, scannerVars, pollerVars, authVars,
                   secIsAuthenticated, secIsLoading, secGuard, refreshPc>>

\* logout: setGuard(null), setIsAuthenticated(false); finally.
SecurityLogoutFinish ==
    /\ secPc.at = "logout: state"
    /\ secGuard' = Null
    /\ secIsAuthenticated' = FALSE
    /\ secIsLoading' = FALSE
    /\ secPc' = Done
    /\ UNCHANGED <<store, calls, alerts, scannerVars, pollerVars, authVars, refreshPc>>

\* refreshGuardData up to its await of apiService.getProfile().
RefreshGuardData ==
    /\ secIsAuthenticated /\ secPc.at \in {"idle", "logout: token", "logout: guard", "logout: state"}
    /\ refreshPc \in {Idle, Done}
    /\ calls' = Issue(Held(Request("getProfile", "security", Null, Null, Null, Null)))
    /\ refreshPc' = [at |-> "refresh: profile"]
    /\ UNCHANGED <<store, alerts, scannerVars, pollerVars, authVars,
                   secIsAuthenticated, secIsLoading, secGuard, secPc>>

\* refreshGuardData after getProfile returns its ApiResponse: updatedGuard is
\* built from the members id, username, ... of the ApiResponse itself, and
\* setItemAsync('guard_data', ...) is called.
RefreshResume(c, profile) ==
    /\ c.op = "getProfile" /\ refreshPc.at = "refresh: profile"
    /\ calls' = Consume(c)
    /\ refreshPc' = [at |-> "refresh: store",
                     updatedGuard |-> [id |-> Get(profile, "id"),
                                       username |-> Get(profile, "username")]]
    /\ UNCHANGED <<store, alerts, scannerVars, pollerVars, authVars,
                   secIsAuthenticated, secIsLoading, secGuard, secPc>>

\* refreshGuardData: 'guard_data' is written.
RefreshStoreGuard ==
    /\ refreshPc.at = "refresh: store"
    /\ store' = [store EXCEPT !.guard_data = StringifyGuard(refreshPc.updatedGuard)]
    /\ refreshPc' = [at |-> "refresh: state", updatedGuard |-> refreshPc.updatedGuard]
    /\ UNCHANGED <<calls, alerts, scannerVars, pollerVars, authVars,
                   secIsAuthenticated, secIsLoading, secGuard, secPc>>

\* refreshGuardData: setGuard(updatedGuard).
RefreshFinish ==
    /\ refreshPc.at = "refresh: state"
    /\ secGuard' = refreshPc.updatedGuard
    /\ refreshPc' = Done
    /\ UNCHANGED <<store, calls, alerts, scannerVars, pollerVars, authVars,
                   secIsAuthenticated, secIsLoading, secPc>>

\* The process is stopped and started again: the calls in flight and the
\* state in memory are gone, the secure store is kept, and SecurityProvider
\* is constructed anew.
Restart ==
    /\ secPc.at # "start"
    /\ calls' = EmptyBag
    /\ secIsAuthenticated' = FALSE
    /\ secIsLoading' = TRUE
    /\ secGuard' = Null
    /\ secPc' = [at |-> "start"]
    /\ refreshPc' = Idle
    /\ UNCHANGED <<store, alerts, scannerVars, pollerVars, authVars>>

----------------------------------------------------------------------------
(* The results of the operations of the API client.                        *)

\* What an operation makes of the replies that are not a 401.
Settled(replies) == { Settle(reply) : reply \in { x \in replies : ~IsUnauthorized(x) } }

LoginResults == Settled(ErrorReplies \cup OkReplies(LoginBodies))
GuardQRResults == Settled(ErrorReplies \cup OkReplies(GuardQRBodies))
ScanGuestResults == Settled(ErrorReplies \cup OkReplies(ScanGuestBodies))
VerifyOtpResults == Settled(ErrorReplies \cup OkReplies(VerifyOtpBodies))
PendingActionsResults == Settled(ErrorReplies \cup OkReplies(PendingActionsBodies))

OpResults(op) ==
    CASE op = "login" -> LoginResults
      [] op = "getDashboard" -> Settled(ErrorReplies \cup OkReplies(DashboardBodies))
      [] op = "getGuardQR" -> GuardQRResults
      [] op = "scanGuest" -> ScanGuestResults
      [] op = "verifyOtp" -> VerifyOtpResults
      [] op = "getProfile" -> Settled(ErrorReplies \cup OkReplies(ProfileBodies))
      [] op = "updateProfile" -> Settled(ErrorReplies \cup OkReplies(UpdateProfileBodies))
      [] op = "checkPendingActions" -> PendingActionsResults

\* The results call c can resume its caller with: the one a 401 left, or what
\* the operation makes of any other reply (no await lies between that reply and
\* the caller's resumption); none before the request is sent.
Results(c) ==
    CASE c.phase = "settled" -> {c.result}
      [] c.phase = "sent" -> OpResults(c.op)
      [] OTHER -> {}

----------------------------------------------------------------------------
(* Initial states.                                                         *)



\* ScannerScreen's useState initial values.
ScannerFresh ==
    [scanned |-> FALSE, scanResult |-> Null, showManualEntry |-> FALSE,
     showOtpModal |-> FALSE, manualQrCode |-> <<>>, otpCode |-> <<>>,
     isProcessing |-> FALSE, pendingOtpData |-> Null]

ScannerInit ==
    /\ scanned = ScannerFresh.scanned
    /\ scanResult = ScannerFresh.scanResult
    /\ showManualEntry = ScannerFresh.showManualEntry
    /\ showOtpModal = ScannerFresh.showOtpModal
    /\ manualQrCode = ScannerFresh.manualQrCode
    /\ otpCode = ScannerFresh.otpCode
    /\ isProcessing = ScannerFresh.isProcessing
    /\ pendingOtpData = ScannerFresh.pendingOtpData

\* MyQRScreen's useState / useRef initial values, before its mount effect.
PollerInit ==
    /\ lifecycle = "constructed"
    /\ myQrData = NullStr
    /\ myQrIsLoading = TRUE
    /\ showL3Modal = FALSE
    /\ showL4Modal = FALSE
    /\ l3ScanData = Null
    /\ l4OtpData = Null
    /\ pollingIntervalRef = Null
    /\ otpInput = <<>>
    /\ isVerifyingOtp = FALSE
    /\ pollClosure = Null

\* A session restored or logged in: the tabs are shown only then.
LoggedIn(t, g) ==
    /\ store = [auth_token |-> t, guard_data |-> Stringify(g)]
    /\ guard = g
    /\ token = t
    /\ isLoading = FALSE
    /\ authPc = Idle
    /\ loginResult = Null

Init ==
    /\ calls = EmptyBag
    /\ alerts = {}
    /\ ScannerInit
    /\ PollerInit
    /\ LoggedIn("t1", CHOOSE g \in Guards : g.id = "g1")
    /\ SecurityInit

----------------------------------------------------------------------------
(* The scanner screen with its server.                                     *)

Next ==
    \/ \E data \in QrTexts : HandleBarCodeScanned(data)
    \/ OpenManualEntry
    \/ CloseManualEntry
    \/ \E text \in ManualTexts : SetManualQrCode(text)
    \/ HandleManualEntry
    \/ \E c \in Outstanding(ScannerOps) : \E r \in Results(c) :
            ProcessScanResume(c, r)
    \/ \E code \in OtpCodes : SetOtpCode(code)
    \/ HandleVerifyOtp
    \/ \E c \in Outstanding(ScannerOps) : \E r \in Results(c) :
            VerifyOtpSuccess(c, r)
    \/ \E c \in Outstanding(ScannerOps) : \E r \in Results(c) :
            VerifyOtpFailure(c, r)
    \/ \E a \in alerts : DismissAlert(a)
    \/ OtpCancel
    \/ ResetScanner

Spec == Init /\ [][Next]_vars

----------------------------------------------------------------------------
(* The My-QR screen with its server.                                       *)

PollerNext ==
    \/ Mount
    \/ Tick
    \/ Unmount
    \/ \E c \in MyQrCalls : \E r \in Results(c) :
            CheckPendingActionsSuccess(c, r)
    \/ \E c \in MyQrCalls : \E r \in Results(c) :
            CheckPendingActionsFailure(c, r)
    \/ HandleL3Acknowledge
    \/ HandleCancelL4
    \/ \E code \in OtpInputs : SetOtpInput(code)
    \/ HandleVerifyL4Otp
    \/ \E c \in MyQrCalls : \E r \in Results(c) :
            VerifyL4OtpResume(c, r)
    \/ \E a \in alerts : DismissMyQrAlert(a)
    \/ LoadQRCode
    \/ \E c \in MyQrCalls : \E r \in Results(c) :
            LoadQRCodeResume(c, r)
    \/ \E c \in MyQrCalls : \E reply \in ErrorReplies : MyQrRespond401(c, reply)

PollerSpec == Init /\ [][PollerNext]_vars

----------------------------------------------------------------------------
(* The session: the process from its start, the session context, the calls *)
(* of the screens, and the server.                                         *)

\* The process starts with what an earlier run left in the secure store.
SessionInit ==
    /\ calls = EmptyBag
    /\ alerts = {}
    /\ ScannerInit
    /\ PollerInit
    /\ store \in [auth_token : {NullStr} \cup Tokens,
                  guard_data : {NoText} \cup { Stringify(g) : g \in Guards }]
    /\ guard = Null
    /\ token = NullStr
    /\ isLoading = TRUE
    /\ authPc = [at |-> "start"]
    /\ loginResult = Null
    /\ SecurityInit

SessionNext ==
    \/ CheckAuth
    \/ CheckAuthReadGuard
    \/ CheckAuthRestore
    \/ CheckAuthThrows
    \/ Login
    \/ \E c \in BagToSet(calls) : \E r \in Results(c) : LoginResume(c, r)
    \/ LoginStoreGuard
    \/ LoginFinish
    \/ Logout
    \/ LogoutDeleteToken
    \/ LogoutDeleteGuard
    \/ LogoutFinish
    \/ \E op \in ScreenOps : CallApi(op)
    \/ \E c \in BagToSet(calls) : ReadToken(c)
    \/ \E c \in BagToSet(calls) : SendRequest(c)
    \/ \E c \in BagToSet(calls) : \E r \in Results(c) : ApiReturn(c, r)
    \/ \E c \in BagToSet(calls) : \E reply \in ErrorReplies : Unauthorized401(c, reply)

SessionSpec == SessionInit /\ [][SessionNext]_vars

----------------------------------------------------------------------------
(* The second session context: the process from its start, and again from  *)
(* every restart, SecurityProvider, and the server.                         *)

SecurityStart ==
    /\ calls = EmptyBag
    /\ alerts = {}
    /\ ScannerInit
    /\ PollerInit
    /\ store \in [auth_token : {NullStr} \cup Tokens,
                  guard_data : {NoText, <<"{", "}">>} \cup { Stringify(g) : g \in Guards }]
    /\ guard = Null
    /\ token = NullStr
    /\ isLoading = TRUE
    /\ authPc = [at |-> "start"]
    /\ loginResult = Null
    /\ SecurityInit

SecurityNext ==
    \/ CheckAuthStatus
    \/ CheckAuthStatusReadGuard
    \/ CheckAuthStatusRestore
    \/ CheckAuthStatusThrows
    \/ SecurityLogin
    \/ \E c \in BagToSet(calls) : \E r \in Results(c) : SecurityLoginResume(c, r)
    \/ SecurityLogout
    \/ SecurityLogoutDeleteToken
    \/ SecurityLogoutDeleteGuard
    \/ SecurityLogoutFinish
    \/ RefreshGuardData
    \/ \E c \in BagToSet(calls) : ReadToken(c)
    \/ \E c \in BagToSet(calls) : SendRequest(c)
    \/ \E c \in BagToSet(calls) : \E reply \in ErrorReplies : Unauthorized401(c, reply)
    \/ \E c \in BagToSet(calls) : \E r \in Results(c) : RefreshResume(c, r)
    \/ RefreshStoreGuard
    \/ RefreshFinish
    \/ Restart

SecuritySpec == SecurityStart /\ [][SecurityNext]_vars

----------------------------------------------------------------------------
(* Properties of the scanner.                                              *)

\* The texts that are a JSON object with a non-empty invitationId and a
\* non-empty qrCode, and the pair each of them carries.
ScanPairs ==
    { [invitationId |-> i, qrCode |-> q] : i \in {"inv1", "inv2"}, q \in {"q1", "q2"} }
TextsOf(p) ==
    { ObjText("invitationId", p.invitationId, "qrCode", p.qrCode),
      ObjText("qrCode", p.qrCode, "invitationId", p.invitationId) }
WellFormedTexts == UNION { TextsOf(p) : p \in ScanPairs }
MalformedTexts == (QrTexts \cup ManualTexts) \ WellFormedTexts
PairOfText(t) == CHOOSE p \in ScanPairs : t \in TextsOf(p)

\* The controller's states of the spec, read off the screen's cells.
IsDenied(result) == result # Null /\ ~result.success
OtpPending == showOtpModal /\ pendingOtpData # Null
ScansOutstanding == NumOutstanding({"scanGuest"})

\* The calls a step issues: those with more copies after it than before.
Issued(before, after) ==
    { c \in BagToSet(after) : CopiesIn(c, after) > CopiesIn(c, before) }

\* C1: a scan input (camera or manual) that is not parseable JSON, or lacks a
\* non-empty invitationId or qrCode, ends processScan in Denied and issues no
\* scan-guest call.
C1_MalformedIsDeniedWithoutCall ==
    [][ \A t \in MalformedTexts :
          (HandleBarCodeScanned(t) \/ (manualQrCode = t /\ HandleManualEntry))
          => /\ calls' = calls
             /\ IsDenied(scanResult') ]_vars

\* A malformed text has been scanned: Denied with the message of the field
\* check, and nothing outstanding.
C1_Witness ==
    /\ scanned
    /\ scanResult = Denied("Missing required QR data")
    /\ calls = EmptyBag

\* C2: a scan submitted while one is Submitting is a no-op: one scan-guest
\* call per scan cycle, so never two of them outstanding.
C2_SingleFlightScan == ScansOutstanding <= 1

\* C3: at most one verification call (scan-guest or verify-otp) is in flight.
C3_OneCallInFlight == NumOutstanding(ScannerOps) <= 1

\* C4: a 'pending_otp' response moves the controller to OtpPending holding the
\* pair of the scanned text; the pair changes only by another such response
\* or by being cleared; and every verify-otp call sends the pair held.
C4_OtpPairRoundTrip ==
    /\ [][ \A c \in Outstanding({"scanGuest"}) :
           \A r \in Results(c) :
             (ProcessScanResume(c, r) /\ r.success /\ r.data # Null
                /\ r.data.status = "pending_otp")
             => /\ OtpPending'
                /\ ScanGuestBody(pendingOtpData') = PairOfText(c.qrData)
                /\ c.body = PairOfText(c.qrData) ]_vars
    /\ [][ (pendingOtpData' # pendingOtpData /\ pendingOtpData' # Null)
           => \E c \in Outstanding({"scanGuest"}) :
                /\ Consume(c) = calls'
                /\ ScanGuestBody(pendingOtpData') = PairOfText(c.qrData) ]_vars
    /\ [][ \A v \in Issued(calls, calls') :
             v.op = "verifyOtp"
             => /\ pendingOtpData # Null
                /\ v.body.invitationId = ScanGuestBody(pendingOtpData).invitationId
                /\ v.body.qrCode = ScanGuestBody(pendingOtpData).qrCode ]_vars

\* A verify-otp call is outstanding for the pair of the second text, whose
\* fields come in the other order.
C4_Witness ==
    \E v \in Outstanding({"verifyOtp"}) :
        /\ v.body.invitationId = "inv2" /\ v.body.qrCode = "q2"
        /\ OtpPending

\* C5: a failed verify attempt made in OtpPending leaves the controller in
\* OtpPending with the same pair, result and modal, and leaves the Verify
\* button free for another attempt (no re-scan).
C5_FailedVerifyStaysPending ==
    [][ \A c \in Outstanding({"verifyOtp"}) :
        \A r \in Results(c) :
          (VerifyOtpFailure(c, r) /\ OtpPending)
          => /\ OtpPending'
             /\ pendingOtpData' = pendingOtpData
             /\ scanResult' = scanResult
             /\ scanned' = scanned
             /\ otpCode' = otpCode
             /\ ~isProcessing' ]_vars

\* A verify attempt has failed (its alert is shown) and the controller is in
\* OtpPending with the code typed and nothing outstanding.
C5_Witness ==
    /\ OtpPending
    /\ alerts # {}
    /\ otpCode = <<"1", "2">>
    /\ scanResult # Null /\ scanResult.success
    /\ ~isProcessing
    /\ calls = EmptyBag

\* The ephemeral scan state: capture flag, result, pending pair, entered code,
\* OTP surface, processing flag.
Ephemeral(s) ==
    [scanned |-> s.scanned, scanResult |-> s.scanResult,
     pendingOtpData |-> s.pendingOtpData, otpCode |-> s.otpCode,
     showOtpModal |-> s.showOtpModal, isProcessing |-> s.isProcessing]

\* C6: Cancel on the OTP surface leaves the ephemeral scan state of a fresh
\* controller, and a further cancel or reset of that state changes nothing.
C6_CancelIsIdempotentReset ==
    [][ OtpCancel
        => LET t == ScanState'
           IN  /\ Ephemeral(t) = Ephemeral(ScannerFresh)
               /\ OtpCancelState(t) = t
               /\ ResetScannerState(t) = t ]_vars

\* The state Cancel is pressed in: OtpPending with a result, a pair and an
\* entered code to clear.
C6_Witness ==
    /\ OtpPending /\ ~isProcessing /\ NoAlert
    /\ otpCode = <<"4", "8", "2", "9", "1", "3">>
    /\ scanResult # Null /\ scanResult.success
    /\ calls = EmptyBag

\* The controller is in Granted: a result that says success and asks for no
\* code.
IsGranted(result) == result # Null /\ result.success /\ ~result.requiresOtp

\* The scan-guest results of status 'success'.
ScanSuccessResults ==
    { x \in ScanGuestResults : x.success /\ x.data # Null /\ x.data.status = "success" }

\* C11: when a scan-guest call is answered with status 'success', processScan
\* leaves the controller in Granted with the guest name, phone and security
\* level of the response, and the OTP surface is shown neither before nor
\* after that step.
C11_SuccessGrantsWithoutOtp ==
    [][ \A c \in Outstanding({"scanGuest"}) :
        \A r \in ScanSuccessResults :
          ProcessScanResume(c, r)
          => /\ IsGranted(scanResult')
             /\ GuestFields(scanResult') = GuestFields(r.data.invitation)
             /\ ~showOtpModal /\ ~showOtpModal' ]_vars

\* The guest fields of the scan-guest responses that ask for a code.
PendingOtpGuests ==
    { GuestFields(x.data.invitation) :
        x \in { y \in ScanGuestResults :
                   y.success /\ y.data # Null /\ y.data.status = "pending_otp" } }

\* C12: when a verify-otp call succeeds, handleVerifyOtp leaves the controller
\* in Granted with the guest name, phone and security level of the scan-guest
\* response that asked for the code, with the OTP surface closed and the
\* pending pair and the entered code cleared.
C12_VerifiedGrantKeepsGuest ==
    [][ \A c \in Outstanding({"verifyOtp"}) :
        \A r \in VerifyOtpResults :
          VerifyOtpSuccess(c, r)
          => /\ IsGranted(scanResult')
             /\ GuestFields(scanResult') \in PendingOtpGuests
             /\ ~showOtpModal'
             /\ pendingOtpData' = Null
             /\ otpCode' = <<>> ]_vars

\* The replies to a scan-guest request that are not a 401 and do not carry
\* status 'success' or 'pending_otp': a failing status, no response, a body
\* with success = false or without data, or a body of another status.
ScanFailureReplies ==
    { x \in ErrorReplies \cup OkReplies(ScanGuestBodies) :
        /\ ~IsUnauthorized(x)
        /\ IsError(x) \/ ~x.body.success \/ x.body.data = Null
             \/ x.body.data.status \notin {"success", "pending_otp"} }

\* The message the server put in such a reply, if any.
ServerMessageOf(reply) ==
    IF IsError(reply) THEN reply.message
    ELSE IF reply.body.success /\ reply.body.data # Null THEN reply.body.data.message
    ELSE reply.body.error

\* The messages the client shows when the server sent none.
GenericMessages ==
    {"Scan failed", "An error occurred", "Network Error", "Request failed with status code"}

\* C13: when a scan-guest call is rejected, fails in transport or is answered
\* with an unknown status, processScan leaves the controller in Denied with
\* the server's message if it sent one and a generic message otherwise, not in
\* Granted and not in OtpPending, and issues no call.
C13_FailedScanIsDenied ==
    [][ \A c \in Outstanding({"scanGuest"}) :
        \A reply \in ScanFailureReplies :
          ProcessScanResume(c, Settle(reply))
          => /\ IsDenied(scanResult')
             /\ IF Falsy(ServerMessageOf(reply))
                THEN scanResult'.message \in GenericMessages
                ELSE scanResult'.message = ServerMessageOf(reply)
             /\ ~OtpPending'
             /\ Issued(calls, calls') = {} ]_vars

\* The length of a one-time code as the guards receive it.
OtpLength == 6

\* C14: every verify-otp call issued from the scanner's OTP surface carries an
\* entered code of exactly six characters (the tier-four surface's calls are
\* those of via "l4", whose Verify button demands otpInput.length = 6).
C14_SixDigitsBeforeVerify ==
    \A c \in Outstanding({"verifyOtp"}) :
        c.via = "otp" => Len(c.body.otpCode) = OtpLength

\* The controller rests in Granted or Denied: a cycle has left its result and
\* neither a call of the screen's is awaited nor the OTP surface shown.
Resting == scanned /\ ~isProcessing /\ ~showOtpModal
              /\ (IsGranted(scanResult) \/ IsDenied(scanResult))

\* C16: pressed in Granted or Denied, Scan Another leaves the ephemeral scan
\* state of a fresh controller (no result, no pending pair, no entered code,
\* capture enabled); and a text the camera reads in such a state is taken:
\* a well-formed one is sent as its own pair, a malformed one is denied.
C16_ScanAnotherStartsAfresh ==
    /\ [][ (ResetScanner /\ Resting)
            => Ephemeral(ScanState') = Ephemeral(ScannerFresh) ]_vars
    /\ [][ \A t \in QrTexts :
            (HandleBarCodeScanned(t) /\ Ephemeral(ScanState) = Ephemeral(ScannerFresh))
            => /\ scanned'
               /\ IF t \in WellFormedTexts
                  THEN /\ isProcessing' /\ scanResult' = Null
                       /\ \E c \in Issued(calls, calls') :
                            c.op = "scanGuest" /\ c.body = PairOfText(t)
                  ELSE IsDenied(scanResult') /\ calls' = calls ]_vars

\* The state Scan Another is pressed in: Granted after a verified code, with
\* nothing in flight and no modal or alert over the button.
C16_Witness ==
    /\ Resting /\ IsGranted(scanResult)
    /\ scanResult.guestName = "Bob"
    /\ ~showManualEntry /\ NoAlert
    /\ calls = EmptyBag

\* What the camera path does with text t once its guard has let it in: the
\* request it issues (none for a rejected text) and the result it sets.
CameraRequests(t) ==
    LET r == ParseScan(t)
    IN  IF r.throws THEN {}
        ELSE {Request("scanGuest", "camera", ScanGuestBody(r.parsedData), t,
                      r.parsedData, Null)}
CameraResult(t) ==
    LET r == ParseScan(t)
    IN  IF r.throws THEN Denied(OrElse(r.message, "Scan failed")) ELSE scanResult

\* C23: a text submitted by manual entry is taken only where the camera path
\* would take it (not scanned, not processing), and then issues the request
\* and sets the result the camera path would for the same text.
C23_ManualAsCamera ==
    [][HandleManualEntry
        => /\ ~(scanned \/ isProcessing)
           /\ { [c EXCEPT !.via = "camera"] : c \in Issued(calls, calls') }
                = CameraRequests(manualQrCode)
           /\ scanResult' = CameraResult(manualQrCode)
           /\ scanned' ]_vars

\* C24: neither the OTP surface's Cancel nor Scan Another runs while a
\* scan-guest or verify-otp call is outstanding, so the ephemeral scan state
\* is never reset between a request and the handling of its response.
C24_NoResetMidFlight ==
    [][(OtpCancel \/ ResetScanner) => NumOutstanding(ScannerOps) = 0]_vars

\* C28: the processing flag is accurate: in every reachable state isProcessing
\* is true while a scan-guest or verify-otp call is outstanding and false
\* when none is, so a scan cycle never rests in Submitting.
C28_ProcessingFlagIsAccurate ==
    isProcessing <=> NumOutstanding(ScannerOps) > 0

\* C29: no granted outcome is presented before the code is verified: while
\* the controller is in OtpPending, the result shown to the guard is not a
\* successful 'Access Granted' result.
C29_NoGrantWhileOtpPending ==
    (OtpPending /\ scanned)
        => ~(scanResult # Null /\ scanResult.success
             /\ ResultTitle(scanResult) = "Access Granted")

\* C30: whenever capture is enabled (scanned = false) and no scan-guest or
\* verify-otp call is outstanding, the controller holds no outcome of an
\* earlier scan: scanResult and pendingOtpData are null.
C30_CaptureEnabledHoldsNoOutcome ==
    (~scanned /\ NumOutstanding(ScannerOps) = 0)
        => (scanResult = Null /\ pendingOtpData = Null)

----------------------------------------------------------------------------
(* Properties of the poller.                                               *)

PollsOutstanding == { c \in MyQrCalls : c.op = "checkPendingActions" }

\* C7: when a tick reports hasL3Scans with a list that is not empty, the first
\* item of the list is surfaced, and while the tier-three surface is shown no
\* step replaces the surfaced item.
C7_TierThreeSingleFlight ==
    /\ [][\A c \in PollsOutstanding : \A r \in Results(c) :
            ( /\ CheckPendingActionsSuccess(c, r)
              /\ lifecycle = "mounted" /\ ~showL3Modal
              /\ r.data.hasL3Scans /\ Len(r.data.pendingL3Scans) > 0 )
            => (showL3Modal' /\ l3ScanData' = r.data.pendingL3Scans[1])]_vars
    /\ [][(showL3Modal /\ showL3Modal') => l3ScanData' = l3ScanData]_vars

\* The results of a poll that are not a success with data.
PendingActionsFailures == { x \in PendingActionsResults : ~PollAccepted(x) }
FailedPollResults(c) ==
    IF c.phase = "settled" THEN {c.result} ELSE PendingActionsFailures

\* C8: a poll that fails (no response, a failing status, or success = false)
\* leaves both surfaced items and their shown flags as they were, raises no
\* alert, and leaves the timer as it was, running at POLLING_INTERVAL.
C8_FailedPollChangesNothing ==
    [][\A c \in PollsOutstanding : \A r \in FailedPollResults(c) :
        CheckPendingActionsFailure(c, r) =>
            /\ <<showL3Modal, l3ScanData, showL4Modal, l4OtpData>>'
                    = <<showL3Modal, l3ScanData, showL4Modal, l4OtpData>>
            /\ alerts' = alerts
            /\ pollingIntervalRef' = pollingIntervalRef
            /\ lifecycle = "mounted" =>
                    /\ pollingIntervalRef' # Null
                    /\ pollingIntervalRef'.interval = POLLING_INTERVAL]_vars

\* Both surfaces are shown, the timer runs, and a poll has been answered 401.
C8_Witness ==
    /\ lifecycle = "mounted" /\ pollingIntervalRef # Null
    /\ showL3Modal /\ l3ScanData # Null
    /\ showL4Modal /\ l4OtpData # Null
    /\ \E c \in PollsOutstanding : c.phase = "settled" /\ ~c.result.success

\* The checkPendingActions requests a step sends.
PollsIssued(before, after) ==
    { c \in Issued(before, after) : c.op = "checkPendingActions" /\ c.phase = "sent" }

\* C15: the mount effect starts the timer and sends the first poll; the
\* cleanup clears the timer; and once the screen is unmounted the timer stays
\* cleared and no step sends a checkPendingActions request.
C15_PollingStopsOnUnmount ==
    /\ [][Mount => /\ pollingIntervalRef' # Null
                   /\ PollsIssued(calls, calls') # {}]_vars
    /\ [][Unmount => pollingIntervalRef' = Null]_vars
    /\ [][lifecycle = "unmounted"
            => /\ lifecycle' = "unmounted"
               /\ pollingIntervalRef' = Null
               /\ PollsIssued(calls, calls') = {}]_vars

\* The screen has polled, surfaced an item of each tier and been unmounted:
\* the timer is cleared and nothing is in flight.
C15_Witness ==
    /\ lifecycle = "unmounted"
    /\ pollingIntervalRef = Null
    /\ showL3Modal /\ showL4Modal
    /\ calls = EmptyBag

\* C19: a tick that reports hasL4Otps with a list that is not empty surfaces
\* the first tier-four item whether or not the tier-three surface is shown,
\* and likewise for tier three whatever the tier-four surface; and while the
\* tier-four surface is shown no step replaces its item.
C19_TierFourSingleFlight ==
    /\ [][\A c \in PollsOutstanding : \A r \in Results(c) :
            ( /\ CheckPendingActionsSuccess(c, r)
              /\ lifecycle = "mounted" /\ ~showL4Modal
              /\ r.data.hasL4Otps /\ Len(r.data.pendingL4Otps) > 0 )
            => (showL4Modal' /\ l4OtpData' = r.data.pendingL4Otps[1])]_vars
    /\ [][\A c \in PollsOutstanding : \A r \in Results(c) :
            ( /\ CheckPendingActionsSuccess(c, r)
              /\ lifecycle = "mounted" /\ ~showL3Modal /\ showL4Modal
              /\ r.data.hasL3Scans /\ Len(r.data.pendingL3Scans) > 0 )
            => (showL3Modal' /\ l3ScanData' = r.data.pendingL3Scans[1])]_vars
    /\ [][(showL4Modal /\ showL4Modal') => l4OtpData' = l4OtpData]_vars

\* C20: acknowledging the tier-three surface clears its item and its shown
\* flag and nothing else: no call is issued or consumed, and the tier-four
\* item, shown flag and entered OTP, the QR payload, the timer, the alerts and
\* the secure store are as before.
C20_AcknowledgeFrame ==
    [][HandleL3Acknowledge
        => /\ ~showL3Modal' /\ l3ScanData' = Null
           /\ calls' = calls
           /\ <<l4OtpData, showL4Modal, otpInput, isVerifyingOtp>>'
                = <<l4OtpData, showL4Modal, otpInput, isVerifyingOtp>>
           /\ myQrData' = myQrData
           /\ pollingIntervalRef' = pollingIntervalRef
           /\ lifecycle' = lifecycle
           /\ alerts' = alerts /\ store' = store]_vars

\* The state Acknowledge is pressed in: both surfaces shown, an OTP typed
\* for tier four, the QR loaded, the timer running and a poll in flight.
C20_Witness ==
    /\ MyQrShown /\ showL3Modal /\ l3ScanData # Null
    /\ showL4Modal /\ l4OtpData # Null
    /\ otpInput = <<"4", "8", "2", "9", "1", "3">>
    /\ myQrData # NullStr
    /\ pollingIntervalRef # Null
    /\ PollsOutstanding # {}

\* The results of a poll that are a success with data.
PendingActionsSuccesses == { x \in PendingActionsResults : PollAccepted(x) }

\* C21: once the guard has acknowledged a tier-three item, a poll of the
\* running timer that still reports that item first surfaces it again; and
\* every poll answered while the tier-three surface is down surfaces the
\* first item it reports, by that same rule.
C21_AcknowledgedItemReappears ==
    /\ [][HandleL3Acknowledge =>
            \A r \in PendingActionsSuccesses :
                ( /\ r.data.hasL3Scans /\ Len(r.data.pendingL3Scans) > 0
                  /\ r.data.pendingL3Scans[1] = l3ScanData )
                => LET t == SurfacePending(PollState', r.data, pollClosure')
                   IN  t.showL3Modal /\ t.l3ScanData = l3ScanData]_vars
    /\ [][(lifecycle = "mounted" /\ ~showL3Modal) =>
            \A c \in PollsOutstanding : \A r \in PendingActionsSuccesses :
                ( /\ r.data.hasL3Scans /\ Len(r.data.pendingL3Scans) > 0
                  /\ CheckPendingActionsSuccess(c, r) )
                => /\ showL3Modal' /\ l3ScanData' = r.data.pendingL3Scans[1]
                   /\ c.saved = pollClosure]_vars

\* The state Acknowledge is pressed in: Dan's scan is surfaced, and a poll
\* that may report Dan again is in flight.
C21_Witness ==
    /\ MyQrShown /\ showL3Modal /\ l3ScanData = Dan
    /\ ~showL4Modal
    /\ PollsOutstanding # {}

----------------------------------------------------------------------------
(* Properties of the session.                                              *)

\* C9: whichever operation a request belongs to, the step in which its 401
\* becomes the failure result of the operation leaves no 'auth_token' in the
\* secure store, and the result is then still to be returned to the caller.
C9_UnauthorizedDeletesToken ==
    [][\A c \in BagToSet(calls') :
        (c.unauthorized /\ CopiesIn(c, calls') > CopiesIn(c, calls)) =>
            /\ store'.auth_token = NullStr
            /\ c.phase = "settled"
            /\ ~c.result.success]_vars

\* Requests of two different operations have been answered 401 and their
\* failures are not returned yet; the stored token is gone.
C9_Witness ==
    /\ store.auth_token = NullStr
    /\ \E c1, c2 \in BagToSet(calls) :
            /\ c1.op # c2.op
            /\ c1.unauthorized /\ c2.unauthorized
            /\ c1.auth = Bearer("t1")

\* C10: once the failure of a 401 has been returned to its caller, with the
\* stored token still absent and no login or logout under way, the session
\* context is unauthenticated.
C10_UnauthorizedEndsSession ==
    [][\A c \in BagToSet(calls) :
        ( /\ c.unauthorized
          /\ CopiesIn(c, calls') < CopiesIn(c, calls)
          /\ store'.auth_token = NullStr
          /\ authPc' = Idle )
        => ~IsAuthenticated']_vars

\* A step returns result r of call c to the caller of the operation.
Returns(c, r) == ApiReturn(c, r) \/ LoginResume(c, r)

\* C17 (as claimed): every result an operation returns to its caller either
\* says success or is a failure with an error message that is not empty.
C17_FailureCarriesMessage ==
    [][\A c \in BagToSet(calls) : \A r \in Results(c) :
        Returns(c, r) => (r.success \/ ~Falsy(r.error))]_vars

\* A failure the client made of an error: success = false and an error
\* message that is not empty.
ClientFailure(r) == ~r.success /\ ~Falsy(r.error)

\* C17 (amended): every operation returns a result value, in all cases: the
\* body of a 2xx response as the server sent it, and for a failing status, a
\* missing response or a 401 a failure with an error message that is not
\* empty.
C17_ErrorsBecomeResults ==
    /\ [][\A c \in BagToSet(calls) : \A r \in Results(c) :
            Returns(c, r) => "success" \in DOMAIN r]_vars
    /\ [][\A c \in BagToSet(calls) : \A reply \in ErrorReplies :
            (~IsUnauthorized(reply) /\ Returns(c, Settle(reply)))
                => ClientFailure(Settle(reply))]_vars
    /\ [][\A c \in BagToSet(calls) :
            (c.phase = "settled" /\ Returns(c, c.result))
                => c.unauthorized /\ ClientFailure(c.result)]_vars

\* The failure made of a 401, which carries no message of the server's, is
\* about to be returned; its error is the transport's message.
C17_Witness ==
    \E c \in ScreenCalls :
        /\ c.op = "scanGuest"
        /\ c.phase = "settled" /\ c.unauthorized
        /\ c.result.error = "Request failed with status code"

\* The Authorization header that matches stored token t: the bearer token,
\* or no header when no token is stored.
HeaderFor(t) == IF t \in Tokens THEN <<"Bearer", t>> ELSE <<NoHeader>>

\* The requests a step sends: those in phase "sent" after it and not before.
Sent(before, after) == { c \in Issued(before, after) : c.phase = "sent" }

\* C18 (as claimed): every request carries, when it is sent, the header that
\* matches what the secure store holds at that moment: the stored bearer
\* token, or no header if no token is stored.
C18_HeaderMatchesStoreAtSend ==
    [][\A c \in Sent(calls, calls') : c.auth = HeaderFor(store.auth_token)]_vars

\* C18 (amended): the header of every request is the one that matches what
\* the request interceptor read from the secure store for that request: the
\* token stored then, or no header if none was stored; the request is sent
\* with that header, whatever the session context holds in memory.
C18_HeaderMatchesStoreAtRead ==
    /\ [][\A c \in BagToSet(calls) :
            ReadToken(c) =>
                Issued(calls, calls')
                    = {[c EXCEPT !.phase = "read", !.auth = HeaderFor(store.auth_token)]}]_vars
    /\ [][\A c \in BagToSet(calls) :
            SendRequest(c) => Sent(calls, calls') = {[c EXCEPT !.phase = "sent"]}]_vars
    /\ [][\A c \in Sent(calls, calls') :
            c.auth \in { HeaderFor(t) : t \in Tokens \cup {NullStr} }]_vars

\* The stored token is gone (a 401, or a logout under way) and a request of a
\* screen of the still authenticated session has been sent with no
\* Authorization header.
C18_Witness ==
    /\ store.auth_token = NullStr
    /\ IsAuthenticated
    /\ \E c \in ScreenCalls : c.phase = "sent" /\ c.auth = <<NoHeader>>

\* The persisted session equals the one in memory: the same token and the
\* text of the same guard, or neither of them on either side.
SessionWrittenThrough ==
    /\ token = store.auth_token
    /\ IF guard = Null
       THEN store.guard_data = NoText /\ Falsy(token)
       ELSE store.guard_data = Stringify(guard) /\ ~Falsy(token)

\* C22: with checkAuth, login and logout at rest, a session that is written
\* through (token and guard in memory equal to the persisted 'auth_token' and
\* 'guard_data', both present or both absent) stays so with every step that
\* leaves them at rest, the answers to API calls included.
C22_SessionWriteThrough ==
    [][(authPc = Idle /\ SessionWrittenThrough /\ authPc' = Idle)
        => SessionWrittenThrough']_vars

\* C25: checkAuth, which runs once at process start, ends with the session
\* authenticated exactly when both 'auth_token' and 'guard_data' are in the
\* secure store and were read; when an item is missing or a read fails the
\* session ends unauthenticated; in every case isLoading ends false.
C25_RestoredIffBothStored ==
    /\ [][CheckAuthRestore =>
            /\ IsAuthenticated' <=> (store.auth_token # NullStr /\ store.guard_data # NoText)
            /\ IsAuthenticated' => (token' = store.auth_token /\ Stringify(guard') = store.guard_data)
            /\ ~isLoading']_vars
    /\ [][CheckAuthThrows => ~IsAuthenticated' /\ ~isLoading']_vars
    /\ [][(authPc.at \in {"start", "checkAuth: token", "checkAuth: guard"} /\ authPc' = Idle)
            => (CheckAuthRestore \/ CheckAuthThrows)]_vars

\* checkAuth has read both items of a stored session and is about to restore.
C25_Witness ==
    /\ authPc.at = "checkAuth: guard"
    /\ authPc.storedToken = "t1"
    /\ authPc.storedGuard = Stringify([id |-> "g1", username |-> "asha"])
    /\ store.auth_token = "t1"

\* What apiService.login can return to a login that fails.
LoginFailures ==
    { r \in LoginResults \cup { Settle(reply) : reply \in ErrorReplies } :
        ~(r.success /\ r.data # Null) }

\* The login that fails ends unauthenticated, with no token and no guard in
\* memory, not loading, and with the failure returned to its caller.
FailedLoginOutcome(r) ==
    /\ token' = NullStr /\ guard' = Null /\ ~IsAuthenticated'
    /\ ~isLoading'
    /\ authPc' = Idle
    /\ loginResult' = [success |-> FALSE,
                       error |-> IF Falsy(r.error) THEN "Login failed" ELSE r.error]

\* C27: a failed login (server rejection or transport failure) leaves the
\* session unauthenticated and writes nothing to the secure store: from the
\* call of login to its failed return 'auth_token' and 'guard_data' are
\* unchanged, token and guard stay null, and the failure is returned.
C27_FailedLoginWritesNothing ==
    /\ [][(authPc.at = "login: response" /\ authPc'.at \in {"login: response", "idle"})
            => store' = store]_vars
    /\ [][\A c \in BagToSet(calls) : \A r \in LoginFailures :
            (r \in Results(c) /\ LoginResume(c, r)) => FailedLoginOutcome(r)]_vars

\* C27 (amended): a failed login leaves the session unauthenticated, stores
\* no token and no guard, keeps token and guard null and returns the failure;
\* the secure store is unchanged but for one case: a rejection with status
\* 401 deletes whatever 'auth_token' was stored.
C27_FailedLoginStoresNothing ==
    /\ [][\A c \in BagToSet(calls) : \A r \in LoginFailures :
            (r \in Results(c) /\ LoginResume(c, r))
                => (store' = store /\ FailedLoginOutcome(r))]_vars
    /\ [][(authPc.at = "login: response" /\ authPc'.at = "login: response")
            => \/ store' = store
               \/ /\ store' = [store EXCEPT !.auth_token = NullStr]
                  /\ \E c \in BagToSet(calls) : \E reply \in ErrorReplies :
                        c.op = "login" /\ reply.status = Unauthorized
                        /\ Unauthorized401(c, reply)]_vars

\* A login has failed and said so, with a guard still stored from an earlier
\* session and no token.
C27_Witness ==
    /\ authPc = Idle
    /\ loginResult # Null
    /\ ~loginResult.success
    /\ store.auth_token = NullStr
    /\ store.guard_data # NoText

----------------------------------------------------------------------------
(* Properties of the second session context.                               *)

\* SecurityProvider's login that fails, as every login of it does, writes
\* nothing and leaves the session unauthenticated and not loading.
SecurityLoginWritesNothing ==
    [][\A c \in BagToSet(calls) : \A r \in LoginFailures :
        (r \in Results(c) /\ SecurityLoginResume(c, r))
            => store' = store /\ ~secIsAuthenticated' /\ ~secIsLoading']_vars

\* A logout and a refreshGuardData have both run to their end.
BothCompleted == secPc = Done /\ refreshPc = Done

\* C26: however the steps of a logout and of a refreshGuardData interleave,
\* once both have completed the session is unauthenticated and no token is
\* stored; a restart keeps the store, and a checkAuthStatus that finds no
\* stored token ends unauthenticated, whatever 'guard_data' holds.
C26_LogoutRefreshRaceIsBenign ==
    /\ [](BothCompleted => ~secIsAuthenticated /\ store.auth_token = NullStr)
    /\ [][Restart => store' = store /\ ~secIsAuthenticated']_vars
    /\ [][(secPc.at \in {"checkAuthStatus: token", "checkAuthStatus: guard"}
            /\ secPc' = Idle /\ store.auth_token = NullStr)
            => ~secIsAuthenticated']_vars
    /\ [][(store.auth_token = NullStr /\ ~secIsAuthenticated)
            => store'.auth_token = NullStr]_vars

\* Both have completed, the refresh having written 'guard_data' after the
\* logout deleted it: a stale entry remains.
C26_Witness ==
    /\ BothCompleted
    /\ store.guard_data # NoText

====
